---- MODULE Spec2Model ----
(***************************************************************************)
(* The four log-parsing plugins coverage_metrics, hisat2, jax_trimmer and  *)
(* primerclip: construction of MultiqcModule (parse every discovered file, *)
(* filter ignored samples, abort on an empty result set, write the data    *)
(* file, register the general-statistics columns, and for hisat2 draw the  *)
(* alignment plot).                                                         *)
(*                                                                          *)
(* A log line is a record [txt, a, b]: txt is the text of the line up to   *)
(* its numeric fields, a and b are the first and second numeric field      *)
(* (0: the field is missing).  A regular expression is modelled by the set *)
(* of texts it finds and the number of numeric groups it captures.         *)
(* Numbers are fixed-point with Unit parts per integer, so that the plot's *)
(* division by 2.0 is exact.                                                *)
(***************************************************************************)
EXTENDS Integers, Sequences, FiniteSets, TLC

\* files discovered in a run
MaxFiles == 2
\* lines read in a run, over all its files
MaxLines == 4
\* float(...): two binary places, enough for the plot to halve a count exactly
Unit == 2 * 2

Modules == {"coverage_metrics", "hisat2", "jax_trimmer", "primerclip"}

\* the numbers a line may carry
Vals == {1, 2}

Num(n) == n * Unit

Empty == [k \in {} |-> 0]

Restrict(d, S) == [k \in S |-> d[k]]

Put(d, k, v) == [x \in (DOMAIN d) \cup {k} |-> IF x = k THEN v ELSE d[x]]

(***************************************************************************)
(* Regular expressions                                                     *)
(***************************************************************************)
CoverageRegexes ==
    [on_target_percent |-> {"on_target_percent"},
     coverage_uniformity |-> {"coverage_uniformity"}]

PrimerclipRegexes ==
    [total_alignments |-> {"Total alignments processed:"},
     total_mapped_alignments |-> {"Total mapped alignments:"},
     trimmed_by_ge_one_base |-> {"Alignments trimmed by >= 1 base:"},
     trimmed_to_zero |-> {"Alignments trimmed to zero aligned length:"},
     perc_trimmed_by_ge_one_base |-> {"% Alignments trimmed by >= 1 base:"},
     perc_mapped_after_trimming |-> {"% Alignments mapped after trimming:"}]

Hisat2Regexes ==
    [unpaired_total |-> {"Total reads:", "Total unpaired reads:"},
     unpaired_aligned_none |-> {"Aligned 0 time:", "Aligned 0 times:"},
     unpaired_aligned_one |-> {"Aligned 1 time:"},
     unpaired_aligned_multi |-> {"Aligned >1 times:"},
     paired_total |-> {"Total pairs:"},
     paired_aligned_none |-> {"Aligned concordantly or discordantly 0 time:"},
     paired_aligned_one |-> {"Aligned concordantly 1 time:"},
     paired_aligned_multi |-> {"Aligned concordantly >1 times:"},
     paired_aligned_discord_one |-> {"Aligned discordantly 1 time:"}]

OverallTxt == "Overall alignment rate:"

HscmdTxt == "hisat2 -x idx -U B.fq"

JaxRegexes ==
    [perc_hq |-> {"Percentage of HQ reads"},
     total_reads |-> {"Total number of reads"},
     total_hq_reads |-> {"Total number of HQ filtered reads"},
     reads_passing |-> {"Reads passing filter"},
     perc_passing |-> {"Percent reads passing filter"},
     max_trim_len |-> {"Max Trimmed Length"},
     min_trim_len |-> {"Min Trimmed Length"},
     mean_trim_len |-> {"Mean Trimmed Length"}]

\* re.search(regexes[k], l) with one capturing group
Match1(regexes, k, l) == l.txt \in regexes[k] /\ l.a > 0

\* re.search(regexes[k], l) with two capturing groups
Match2(regexes, k, l) == l.txt \in regexes[k] /\ l.a > 0 /\ l.b > 0

\* 'Read' in l
ContainsRead(l) == l.txt \in {"Statistic Read 1", "Statistic Read 1 Read 2", "Reads passing filter"}

\* 'Read 2' in l
ContainsRead2(l) == l.txt = "Statistic Read 1 Read 2"

Suffix1(k) ==
    CASE k = "perc_hq" -> "perc_hq_1"
      [] k = "total_reads" -> "total_reads_1"
      [] k = "total_hq_reads" -> "total_hq_reads_1"
      [] k = "reads_passing" -> "reads_passing_1"
      [] k = "perc_passing" -> "perc_passing_1"
      [] k = "max_trim_len" -> "max_trim_len_1"
      [] k = "min_trim_len" -> "min_trim_len_1"
      [] k = "mean_trim_len" -> "mean_trim_len_1"

Suffix2(k) ==
    CASE k = "perc_hq" -> "perc_hq_2"
      [] k = "total_reads" -> "total_reads_2"
      [] k = "total_hq_reads" -> "total_hq_reads_2"
      [] k = "reads_passing" -> "reads_passing_2"
      [] k = "perc_passing" -> "perc_passing_2"
      [] k = "max_trim_len" -> "max_trim_len_2"
      [] k = "min_trim_len" -> "min_trim_len_2"
      [] k = "mean_trim_len" -> "mean_trim_len_2"

(***************************************************************************)
(* The loop bodies of the parsers                                          *)
(***************************************************************************)
\* a scan that keeps the value a key already has
ScanLineKeepFirst(regexes, pd, l) ==
    LET hit == {k \in DOMAIN regexes : Match1(regexes, k, l)}
    IN  [k \in (DOMAIN pd) \cup hit |-> IF k \in DOMAIN pd THEN pd[k] ELSE Num(l.a)]

\* a scan that gives every key of the table a value, 0 when nothing was captured
ScanLineDefault(regexes, pd, l) ==
    LET hit == {k \in DOMAIN regexes : Match1(regexes, k, l)}
    IN  [k \in DOMAIN regexes |->
            IF k \in hit THEN Num(l.a) ELSE IF k \in DOMAIN pd THEN pd[k] ELSE 0]

\* for k, r in regexes.items(): match = re.search(r, l); if match: parsed_data[k] = float(match.group(1))
ScanLine(regexes, pd, l) ==
    LET hit == {k \in DOMAIN regexes : Match1(regexes, k, l)}
    IN  [k \in (DOMAIN pd) \cup hit |-> IF k \in hit THEN Num(l.a) ELSE pd[k]]

\* jax_trimmer, paired-end branch: parsed_data[k+"_1"], parsed_data[k+"_2"]
ScanLinePE(pd, l) ==
    LET hit == {k \in DOMAIN JaxRegexes : Match2(JaxRegexes, k, l)}
        h1 == {Suffix1(k) : k \in hit}
        h2 == {Suffix2(k) : k \in hit}
    IN  [x \in (DOMAIN pd) \cup h1 \cup h2 |->
            IF x \in h1 THEN Num(l.a) ELSE IF x \in h2 THEN Num(l.b) ELSE pd[x]]

\* jax_trimmer, single-end branch: parsed_data[k+"_1"]
ScanLineSE(pd, l) ==
    LET hit == {k \in DOMAIN JaxRegexes : Match1(JaxRegexes, k, l)}
        h1 == {Suffix1(k) : k \in hit}
    IN  [x \in (DOMAIN pd) \cup h1 |-> IF x \in h1 THEN Num(l.a) ELSE pd[x]]

\* a loop body that takes any 'Read' line for the paired-end marker
JaxLineAnyRead(pd, pe, l) ==
    IF ContainsRead(l)
    THEN [pd |-> pd, pe |-> TRUE]
    ELSE [pd |-> IF pe THEN ScanLinePE(pd, l) ELSE ScanLineSE(pd, l), pe |-> pe]

\* the body of the loop over the lines of a jax_trimmer log: (parsed_data, pe_bool)
JaxLine(pd, pe, l) ==
    IF ContainsRead(l)
    THEN [pd |-> pd, pe |-> (pe \/ ContainsRead2(l))]
    ELSE [pd |-> IF pe THEN ScanLinePE(pd, l) ELSE ScanLineSE(pd, l), pe |-> pe]

\* re.search(r"hisat2 .+ -[1U] ([^\s,]+)", line)
Hscmd(l) == l.txt = HscmdTxt

\* self.clean_s_name(hscmd.group(1), f): the file name without its extension
clean_s_name(l) == "B"

\* a pattern that takes any line with a number for the overall rate
OverallAnyNumber(l) == l.a > 0

\* re.search(r"Overall alignment rate: ([\d\.]+)%", line)
Overall(l) == l.txt = OverallTxt /\ l.a > 0

\* the sample name a parser starts from
SNameOf(m, fname) ==
    CASE m = "coverage_metrics" ->
            (IF fname = "A_amplicon_coverage_metrics" THEN "A" ELSE fname)
      [] m = "primerclip" ->
            (IF fname = "A_primerclip_runstats" THEN "A" ELSE fname)
      [] m = "jax_trimmer" ->
            (IF fname = "A_R1" THEN "A" ELSE fname)
      [] m = "hisat2" -> fname

\* a save that does not look at the record
StoreCondAlways(pd) == TRUE

\* if len(parsed_data) > 0
StoreCond(pd) == DOMAIN pd # {}

\* a save that updates the record already held under the name
StoreMerge(d, s, pd) == Put(d, s, IF s \in DOMAIN d THEN pd @@ d[s] ELSE pd)

\* self.<tool>_data[s_name] = parsed_data
Store(d, s, pd) == Put(d, s, pd)

(***************************************************************************)
(* Inputs: the file names and the lines the discovery service may supply   *)
(***************************************************************************)
FileNames(m) ==
    CASE m = "coverage_metrics" -> {"A_amplicon_coverage_metrics", "B"}
      [] m = "primerclip" -> {"A_primerclip_runstats", "B"}
      [] m = "jax_trimmer" -> {"A_R1", "B"}
      [] m = "hisat2" -> {"A", "B"}

SampleNames == {"A", "B"}

Junk == [txt |-> "junk", a |-> 0, b |-> 0]

NoLine == [txt |-> "", a |-> 0, b |-> 0]

L1(texts, as) == {[txt |-> t, a |-> a, b |-> 0] : t \in texts, a \in as}

Lines(m) ==
    CASE m = "coverage_metrics" ->
            L1({"on_target_percent", "coverage_uniformity"}, {0} \cup Vals) \cup {Junk}
      [] m = "primerclip" ->
            L1({"Total alignments processed:", "Alignments trimmed by >= 1 base:",
                "% Alignments trimmed by >= 1 base:"}, Vals) \cup {Junk}
      [] m = "jax_trimmer" ->
            {[txt |-> t, a |-> a, b |-> b] :
                t \in {"Total number of reads", "Reads passing filter"},
                a \in Vals, b \in {0, 2}}
            \cup L1({"Statistic Read 1", "Statistic Read 1 Read 2"}, {0}) \cup {Junk}
      [] m = "hisat2" ->
            L1({"Total pairs:", "Total unpaired reads:", "Aligned 1 time:"}, Vals)
            \cup L1({OverallTxt}, {0} \cup Vals) \cup L1({HscmdTxt}, {0}) \cup {Junk}

(***************************************************************************)
(* State                                                                   *)
(***************************************************************************)
VARIABLES
    module,       \* the plugin under construction
    pc,           \* position in MultiqcModule.__init__
    nfiles,       \* files handed out by find_log_files so far
    f,            \* f["s_name"] of the file being parsed
    nlines,       \* lines read so far in the run
    line,         \* the line read last
    s_name,       \* local s_name of the parser
    parsed_data,  \* local parsed_data of the parser
    pe_bool,      \* self.pe_bool (jax_trimmer)
    data,         \* self.<tool>_data
    dup,          \* log.debug("Duplicate sample name found! ..."): the name logged
                  \* last and the record it had, << >> while nothing was logged
    calls,        \* host calls made after the parse pass, in order
    written,      \* the argument of write_data_file, as it was at the call
    headers,      \* the header keys handed to general_stats_addcols
    sedata,       \* hisat2_alignment_plot: sedata
    pedata,       \* hisat2_alignment_plot: pedata
    hist          \* what has happened so far (read by the properties only):
                  \*   hits: keys whose pattern found a line of f since the last saved record
                  \*   matched: some line of the run was found by a metric pattern
                  \*   rematch: a line of f replaced a value parsed_data already held
                  \*   marker: a 'Read 2' line was read in f;  run_marker: in some file
                  \*   nsum: records saved from f;  found: samples before ignore_samples
                  \*   cmd: a hisat2 command line was read in f since the last saved record
                  \*   nover: 'Overall alignment rate' lines read in f
                  \*   fnames: the names records of f were saved under
                  \*   dropped: the file read last ended with a working record that was not saved

vars == <<module, pc, nfiles, f, nlines, line, s_name, parsed_data, pe_bool, data,
          dup, calls, written, headers, sedata, pedata, hist>>

NoHist ==
    [hits |-> {}, matched |-> FALSE, rematch |-> FALSE, marker |-> FALSE,
     run_marker |-> FALSE, nsum |-> 0, found |-> 0,
     cmd |-> FALSE, nover |-> 0, fnames |-> {}, dropped |-> FALSE]

Init ==
    /\ module \in Modules
    /\ pc = "find"
    /\ nfiles = 0
    /\ f = ""
    /\ nlines = 0
    /\ line = NoLine
    /\ s_name = ""
    /\ parsed_data = Empty
    /\ pe_bool = FALSE
    /\ data = Empty
    /\ dup = << >>
    /\ calls = << >>
    /\ written = Empty
    /\ headers = {}
    /\ sedata = Empty
    /\ pedata = Empty
    /\ hist = NoHist

(***************************************************************************)
(* The parse pass: for f in self.find_log_files(...): self.parse_..._logs(f)*)
(***************************************************************************)
Regexes(m) ==
    CASE m = "coverage_metrics" -> CoverageRegexes
      [] m = "primerclip" -> PrimerclipRegexes
      [] m = "hisat2" -> Hisat2Regexes
      [] m = "jax_trimmer" -> JaxRegexes

\* the keys whose pattern, in the mode the parser is in, finds line l
HitKeys(m, pe, l) ==
    IF m = "jax_trimmer"
    THEN IF pe
         THEN {Suffix1(k) : k \in {x \in DOMAIN JaxRegexes : Match2(JaxRegexes, x, l)}}
              \cup {Suffix2(k) : k \in {x \in DOMAIN JaxRegexes : Match2(JaxRegexes, x, l)}}
         ELSE {Suffix1(k) : k \in {x \in DOMAIN JaxRegexes : Match1(JaxRegexes, x, l)}}
    ELSE {k \in DOMAIN Regexes(m) : Match1(Regexes(m), k, l)}

\* a reset that keeps the record
ResetRecordKeep(pd) == pd

\* parsed_data = {} (hisat2: after a record is saved)
ResetRecord(pd) == Empty

\* the history after line l, which took parsed_data from pd to pd2 and, when
\* saved holds, closed a record
HistLine(h, m, pe, pd, pd2, l, saved) ==
    [hits |-> IF saved THEN {} ELSE h.hits \cup HitKeys(m, pe, l),
     matched |-> (h.matched \/ HitKeys(m, FALSE, l) # {} \/ (m = "hisat2" /\ Overall(l))),
     rematch |-> (h.rematch \/ \E k \in (DOMAIN pd) \cap (DOMAIN pd2) : pd[k] # pd2[k]),
     marker |-> (h.marker \/ (m = "jax_trimmer" /\ ContainsRead2(l))),
     run_marker |-> (h.run_marker \/ (m = "jax_trimmer" /\ ContainsRead2(l))),
     nsum |-> IF saved THEN h.nsum + 1 ELSE h.nsum,
     found |-> h.found,
     cmd |-> IF l.txt = OverallTxt /\ l.a > 0
             THEN FALSE
             ELSE (h.cmd \/ (m = "hisat2" /\ l.txt = HscmdTxt)),
     nover |-> IF m = "hisat2" /\ l.txt = OverallTxt /\ l.a > 0 THEN h.nover + 1 ELSE h.nover,
     fnames |-> h.fnames,
     dropped |-> h.dropped]

\* the history between two files
HistFile(h) ==
    [h EXCEPT !.hits = {}, !.rematch = FALSE, !.marker = FALSE, !.nsum = 0,
              !.cmd = FALSE, !.nover = 0, !.fnames = {}, !.dropped = FALSE]

\* the debug notice of a save under name s
Notice(d, s, old) == IF s \in DOMAIN d THEN <<s, d[s]>> ELSE old

\* the parser is entered with the next discovered file
FindLogFile(fn) ==
    /\ pc = "find"
    /\ nfiles < MaxFiles
    /\ fn \in FileNames(module)
    /\ nfiles' = nfiles + 1
    /\ f' = fn
    /\ line' = NoLine
    /\ s_name' = SNameOf(module, fn)
    /\ parsed_data' = Empty
    /\ pe_bool' = IF module = "jax_trimmer" THEN FALSE ELSE pe_bool
    /\ hist' = HistFile(hist)
    /\ pc' = "lines"
    /\ UNCHANGED <<module, nlines, data, dup, calls, written, headers, sedata, pedata>>

\* coverage_metrics and primerclip: one turn of the loop over the lines
PlainLine(l) ==
    LET pd == ScanLine(Regexes(module), parsed_data, l)
    IN  /\ module \in {"coverage_metrics", "primerclip"}
        /\ parsed_data' = pd
        /\ hist' = HistLine(hist, module, FALSE, parsed_data, pd, l, FALSE)
        /\ UNCHANGED <<s_name, pe_bool, data, dup>>

\* jax_trimmer: one turn of the loop over the lines
JaxTrimmerLine(l) ==
    LET r == JaxLine(parsed_data, pe_bool, l)
    IN  /\ module = "jax_trimmer"
        /\ parsed_data' = r.pd
        /\ pe_bool' = r.pe
        /\ hist' = HistLine(hist, module, pe_bool, parsed_data, r.pd, l, FALSE)
        /\ UNCHANGED <<s_name, data, dup>>

\* a name that stays as the command line set it
ResetNameKeep(fname, cur) == cur

\* s_name = f["s_name"] (hisat2: after a record is saved)
ResetName(fname, cur) == fname

\* hisat2: one turn of the loop over the lines
Hisat2Line(l) ==
    LET name == IF Hscmd(l) THEN clean_s_name(l) ELSE s_name
        pd == ScanLine(Hisat2Regexes, parsed_data, l)
        rec == Put(pd, "overall_alignment_rate", Num(l.a))
    IN  /\ module = "hisat2"
        /\ IF Overall(l)
           THEN /\ dup' = Notice(data, name, dup)
                /\ data' = Store(data, name, rec)
                /\ s_name' = ResetName(f, name)
                /\ parsed_data' = ResetRecord(rec)
           ELSE /\ s_name' = name
                /\ parsed_data' = pd
                /\ UNCHANGED <<data, dup>>
        /\ hist' = [HistLine(hist, module, FALSE, parsed_data, pd, l, Overall(l))
                        EXCEPT !.fnames = IF Overall(l) THEN @ \cup {name} ELSE @]
        /\ UNCHANGED pe_bool

ReadLine(l) ==
    /\ pc = "lines"
    /\ nlines < MaxLines
    /\ l \in Lines(module)
    /\ nlines' = nlines + 1
    /\ line' = l
    /\ \/ PlainLine(l)
       \/ JaxTrimmerLine(l)
       \/ Hisat2Line(l)
    /\ UNCHANGED <<module, pc, nfiles, f, calls, written, headers, sedata, pedata>>

\* the lines are exhausted: the record is saved (hisat2: whatever is pending is
\* dropped) and the parser returns, which ends the life of its locals
EndOfFile ==
    /\ pc = "lines"
    /\ IF module # "hisat2" /\ StoreCond(parsed_data)
       THEN /\ dup' = Notice(data, s_name, dup)
            /\ data' = Store(data, s_name, parsed_data)
       ELSE UNCHANGED <<data, dup>>
    /\ pc' = "find"
    /\ f' = ""
    /\ line' = NoLine
    /\ s_name' = ""
    /\ parsed_data' = Empty
    /\ hist' = [HistFile(hist) EXCEPT
                    !.dropped = (module = "hisat2" /\ parsed_data # Empty)]
    /\ UNCHANGED <<module, nfiles, nlines, pe_bool, calls, written, headers, sedata, pedata>>

(***************************************************************************)
(* After the parse pass                                                    *)
(***************************************************************************)
\* self.ignore_samples(data): the samples the user's ignore patterns name are dropped
ignore_samples(d, ign) == Restrict(d, (DOMAIN d) \ ign)

IgnoreSamples(ign) ==
    /\ pc = "find"
    /\ ign \in SUBSET SampleNames
    /\ data' = ignore_samples(data, ign)
    /\ calls' = Append(calls, "ignore_samples")
    /\ hist' = [hist EXCEPT !.found = Cardinality(DOMAIN data)]
    /\ pc' = "check"
    /\ UNCHANGED <<module, nfiles, f, nlines, line, s_name, parsed_data, pe_bool,
                   dup, written, headers, sedata, pedata>>

\* an emptiness test that never fires
NoSamplesNever(d) == FALSE

\* len(self.<tool>_data) == 0
NoSamples(d) == Cardinality(DOMAIN d) = 0

\* if len(data) == 0: raise ModuleNoSamplesFound / UserWarning
CheckEmpty ==
    /\ pc = "check"
    /\ IF NoSamples(data)
       THEN /\ calls' = Append(calls, "raise")
            /\ pc' = "aborted"
       ELSE /\ pc' = "write"
            /\ UNCHANGED calls
    /\ UNCHANGED <<module, nfiles, f, nlines, line, s_name, parsed_data, pe_bool, data,
                   dup, written, headers, sedata, pedata, hist>>

WriteDataFile ==
    /\ pc = "write"
    /\ written' = data
    /\ calls' = Append(calls, "write_data_file")
    /\ pc' = "stats"
    /\ UNCHANGED <<module, nfiles, f, nlines, line, s_name, parsed_data, pe_bool, data,
                   dup, headers, sedata, pedata, hist>>

R1Headers ==
    {"total_reads_1", "total_hq_reads_1", "reads_passing_1",
     "min_trim_len_1", "mean_trim_len_1", "max_trim_len_1"}

R2Headers ==
    {"total_reads_2", "total_hq_reads_2", "reads_passing_2",
     "min_trim_len_2", "mean_trim_len_2", "max_trim_len_2"}

\* the keys of the headers built by <tool>_general_stats_table
Headers(m, pe) ==
    CASE m = "coverage_metrics" -> {"on_target_percent", "coverage_uniformity"}
      [] m = "primerclip" -> {"total_alignments", "total_mapped_alignments",
                              "trimmed_by_ge_one_base", "trimmed_to_zero"}
      [] m = "hisat2" -> {"overall_alignment_rate"}
      [] m = "jax_trimmer" -> IF pe THEN R1Headers \cup R2Headers ELSE R1Headers

GeneralStats ==
    /\ pc = "stats"
    /\ headers' = Headers(module, pe_bool)
    /\ calls' = Append(calls, "general_stats_addcols")
    /\ pc' = IF module = "hisat2" THEN "plot" ELSE "done"
    /\ UNCHANGED <<module, nfiles, f, nlines, line, s_name, parsed_data, pe_bool, data,
                   dup, written, sedata, pedata, hist>>

m_keys == {"unpaired_total", "unpaired_aligned_none", "unpaired_aligned_one",
           "unpaired_aligned_multi"}

\* a halving of every count of the record
HalveAll(rec) == [k \in DOMAIN rec |-> rec[k] \div 2]

\* for k in m_keys: if k in data: data[k] = float(data[k]) / 2.0
HalveMates(rec) == [k \in DOMAIN rec |-> IF k \in m_keys THEN rec[k] \div 2 ELSE rec[k]]

\* if "paired_total" in data
IsPaired(rec) == "paired_total" \in DOMAIN rec

\* the records after the loop of hisat2_alignment_plot; the loop works on the
\* records of self.hisat2_data themselves
PlotRecords(d) == [s \in DOMAIN d |-> IF IsPaired(d[s]) THEN HalveMates(d[s]) ELSE d[s]]

\* if len(sedata) > 0: ... bargraph.plot(sedata, ...); if len(pedata) > 0: ... bargraph.plot(pedata, ...)
Charts(se, pe) ==
    (IF DOMAIN se # {} THEN <<"hisat2_se_plot">> ELSE << >>)
    \o (IF DOMAIN pe # {} THEN <<"hisat2_pe_plot">> ELSE << >>)

Hisat2AlignmentPlot ==
    LET recs == PlotRecords(data)
        se == Restrict(recs, {s \in DOMAIN data : ~IsPaired(data[s])})
        pe == Restrict(recs, {s \in DOMAIN data : IsPaired(data[s])})
    IN  /\ pc = "plot"
        /\ data' = recs
        /\ sedata' = se
        /\ pedata' = pe
        /\ calls' = calls \o Charts(se, pe)
        /\ pc' = "done"
        /\ UNCHANGED <<module, nfiles, f, nlines, line, s_name, parsed_data, pe_bool,
                       dup, written, headers, hist>>

Next ==
    \/ \E fn \in FileNames(module) : FindLogFile(fn)
    \/ \E l \in Lines(module) : ReadLine(l)
    \/ EndOfFile
    \/ \E ign \in SUBSET SampleNames : IgnoreSamples(ign)
    \/ CheckEmpty
    \/ WriteDataFile
    \/ GeneralStats
    \/ Hisat2AlignmentPlot

Spec == Init /\ [][Next]_vars

TypeOK ==
    /\ module \in Modules
    /\ pc \in {"find", "lines", "check", "aborted", "write", "stats", "plot", "done"}
    /\ nfiles \in 0..MaxFiles
    /\ nlines \in 0..MaxLines
    /\ DOMAIN data \subseteq SampleNames

(***************************************************************************)
(* Properties                                                              *)
(***************************************************************************)
Called(c) == \E i \in 1..Len(calls) : calls[i] = c

Rendered == {"write_data_file", "general_stats_addcols", "hisat2_se_plot", "hisat2_pe_plot"}

IsPrefix(s, t) == Len(s) <= Len(t) /\ \A i \in 1..Len(s) : s[i] = t[i]

\* C1: in every module, as long as no line of the run has been found by a
\* metric pattern (hisat2: nor by the 'Overall alignment rate' pattern) the
\* result set is empty, the construction never gets past the emptiness check
\* other than by raising, and none of write_data_file, general_stats_addcols
\* or the plot is called.
C1_NoMatchRaises ==
    ~hist.matched =>
        /\ data = Empty
        /\ pc \in {"find", "lines", "check", "aborted"}
        /\ \A c \in Rendered : ~Called(c)
        /\ (pc = "aborted" => calls = <<"ignore_samples", "raise">>)

\* a run that read files and lines, none of them matching, and was aborted
C1_Witness ==
    /\ pc = "aborted"
    /\ ~hist.matched
    /\ nfiles = MaxFiles
    /\ nlines >= 2

\* C2: the host calls of a run come in the order ignore_samples,
\* write_data_file, general_stats_addcols and (hisat2) the charts, all of them
\* after the parse pass; when the result set is empty after ignore_samples the
\* only call that follows is the raise, and the raise happens in no other case.
C2_CallOrder ==
    /\ (pc \in {"find", "lines"} <=> calls = << >>)
    /\ \/ calls = <<"ignore_samples", "raise">>
       \/ \E plots \in {<< >>, <<"hisat2_se_plot">>, <<"hisat2_pe_plot">>,
                        <<"hisat2_se_plot", "hisat2_pe_plot">>} :
            IsPrefix(calls, <<"ignore_samples", "write_data_file",
                              "general_stats_addcols">> \o plots)
    /\ (pc \notin {"find", "lines"} /\ NoSamples(data)) =>
            /\ pc \in {"check", "aborted"}
            /\ \A c \in Rendered : ~Called(c)
    /\ (pc = "aborted" <=> Called("raise"))
    /\ (Called("raise") => NoSamples(data))
    /\ (pc \in {"write", "stats", "plot", "done"} => ~NoSamples(data))
    /\ (pc = "stats" => calls = <<"ignore_samples", "write_data_file">>)
    /\ (pc = "plot" =>
            calls = <<"ignore_samples", "write_data_file", "general_stats_addcols">>)
    /\ (pc = "done" => Called("general_stats_addcols"))
    /\ (pc = "done" /\ module = "hisat2" =>
            (Called("hisat2_se_plot") \/ Called("hisat2_pe_plot")))

\* samples were parsed, all of them were filtered out, and the run was aborted
C2_Witness ==
    /\ pc = "aborted"
    /\ hist.found > 0
    /\ data = Empty

\* d2 is d with the record under n replaced by rec, and nothing else touched
ExactlyReplaced(d, d2, n, rec) ==
    /\ DOMAIN d2 = (DOMAIN d) \cup {n}
    /\ d2[n] = rec
    /\ \A x \in (DOMAIN d) \ {n} : d2[x] = d[x]

\* the step that ends a file of coverage_metrics, jax_trimmer or primerclip
\* with a record to save
SavedAtEnd == pc = "lines" /\ pc' = "find" /\ module # "hisat2" /\ parsed_data # Empty

\* the step that reads an 'Overall alignment rate' line of a hisat2 log
SavedAtOverall == pc = "lines" /\ pc' = "lines" /\ module = "hisat2" /\ Overall(line')

\* C3: the result set maps a sample name to one record; a save under a name,
\* present or not, leaves under that name exactly the record being saved (no
\* key of an earlier record under the name survives) and leaves the records
\* under all other names as they were.
C3_LastParsedWins ==
    [][/\ SavedAtEnd => ExactlyReplaced(data, data', s_name, parsed_data)
       /\ SavedAtOverall =>
            ExactlyReplaced(data, data', s_name,
                            Put(parsed_data, "overall_alignment_rate", Num(line'.a)))]_vars

\* a name was saved twice, and a key of its first record is gone from the record held
C3_Witness ==
    /\ pc \in {"find", "lines"}
    /\ dup # << >>
    /\ dup[1] \in DOMAIN data
    /\ \E k \in DOMAIN dup[2] : k \notin DOMAIN data[dup[1]]

\* C4: when a file ends, the record saved for it holds exactly the keys whose
\* pattern found one of its lines: nothing is saved when no pattern found a
\* line, and no key that was found is missing (hisat2: no key found since the
\* last saved record is left over).
C4_ExactlyMatchedKeys ==
    [][(pc = "lines" /\ pc' = "find") =>
            IF hist.hits = {}
            THEN data' = data
            ELSE s_name \in DOMAIN data' /\ DOMAIN data'[s_name] = hist.hits]_vars

\* the number a key takes from line l
Captured(k, l) ==
    IF k \in {Suffix2(x) : x \in DOMAIN JaxRegexes} THEN Num(l.b) ELSE Num(l.a)

\* C5 as claimed: once a key has a value in the working record, later lines of
\* the file do not change it.
C5_FirstMatchKept ==
    [][\A k \in (DOMAIN parsed_data) \cap (DOMAIN parsed_data') :
            parsed_data'[k] = parsed_data[k]]_vars

\* C5, amended: after a line is read, every key of the working record whose
\* pattern found the line has the number captured from that line, and every
\* other key was there before with the same value: the last matching line wins.
C5_LastMatchWins ==
    [][(pc = "lines" /\ pc' = "lines") =>
            \A k \in DOMAIN parsed_data' :
                IF k \in HitKeys(module, pe_bool, line')
                THEN parsed_data'[k] = Captured(k, line')
                ELSE k \in DOMAIN parsed_data /\ parsed_data'[k] = parsed_data[k]]_vars

\* a line has replaced a value the working record held
C5_Witness ==
    /\ pc = "lines"
    /\ hist.rematch
    /\ parsed_data # Empty

Keys1 == {Suffix1(k) : k \in DOMAIN JaxRegexes}

Keys2 == {Suffix2(k) : k \in DOMAIN JaxRegexes}

\* some sample of d is paired-end
HasPaired(d) == \E s \in DOMAIN d : (DOMAIN d[s]) \cap Keys2 # {}

\* C6: in jax_trimmer a record never has a _2 key without having the _1 key
\* of the same metric, and the R2 headers are among those handed to
\* general_stats_addcols exactly when the result set handed over has a
\* paired-end sample.
C6_R2HeadersIffPaired ==
    module = "jax_trimmer" =>
        /\ \A k \in DOMAIN JaxRegexes :
                Suffix2(k) \in DOMAIN parsed_data => Suffix1(k) \in DOMAIN parsed_data
        /\ Called("general_stats_addcols") =>
                ((R2Headers \subseteq headers) <=> HasPaired(data))

\* C7: in jax_trimmer the working record of a file in which no 'Read 2' line
\* has been read has only _1 keys, and in a run without any 'Read 2' line
\* every record of the result set has only _1 keys and no R2 header is handed
\* to general_stats_addcols.
C7_SingleEndOnlyR1 ==
    module = "jax_trimmer" =>
        /\ (pc = "lines" /\ ~hist.marker) => DOMAIN parsed_data \subseteq Keys1
        /\ ~hist.run_marker =>
                /\ \A s \in DOMAIN data : DOMAIN data[s] \subseteq Keys1
                /\ headers \cap R2Headers = {}
                /\ (Called("general_stats_addcols") => headers = R1Headers)

\* a finished run of two single-end files that produced samples
C7_Witness ==
    /\ module = "jax_trimmer"
    /\ pc = "done"
    /\ ~hist.run_marker
    /\ nfiles = 2
    /\ data # Empty
    /\ headers = R1Headers

\* C8: from write_data_file on, the result set is what write_data_file was given.
C8_NoMutationAfterParse ==
    pc \in {"stats", "plot", "done"} => data = written

\* C9: in hisat2 an 'Overall alignment rate' line saves, under the current
\* name, a record with overall_alignment_rate and exactly the keys found since
\* the last saved record (or the start of the file), with the values of the
\* working record, leaves the other samples alone and empties the working
\* record; any other step of the parser leaves the result set as it is.
C9_OverallFinalizes ==
    [][(module = "hisat2" /\ pc = "lines") =>
            IF pc' = "lines" /\ Overall(line')
            THEN /\ s_name \in DOMAIN data'
                 /\ DOMAIN data'[s_name] = hist.hits \cup {"overall_alignment_rate"}
                 /\ data'[s_name]["overall_alignment_rate"] = Num(line'.a)
                 /\ \A k \in hist.hits : data'[s_name][k] = parsed_data[k]
                 /\ \A n \in (DOMAIN data) \ {s_name} :
                        n \in DOMAIN data' /\ data'[n] = data[n]
                 /\ parsed_data' = Empty
            ELSE data' = data]_vars

\* the second summary of a file has just been saved, and a metric of the
\* first summary is not in it
C9_Witness ==
    /\ module = "hisat2"
    /\ pc = "lines"
    /\ nfiles = 1
    /\ hist.nsum >= 2
    /\ Overall(line)
    /\ dup # << >>
    /\ dup[1] \in DOMAIN data
    /\ \E k \in DOMAIN dup[2] : k \notin DOMAIN data[dup[1]]

C10_Mates == {"unpaired_total", "unpaired_aligned_none", "unpaired_aligned_one",
              "unpaired_aligned_multi"}

\* C10: when hisat2_alignment_plot has run, every sample handed to
\* write_data_file is in exactly one of sedata and pedata, in pedata exactly
\* when its record has paired_total; a paired-end record has the same keys,
\* its four mate counts at half their value and the rest unchanged; a
\* single-end record is unchanged; and a chart was drawn for a subset exactly
\* when the subset is not empty, so one or two charts.
C10_PlotPartition ==
    (module = "hisat2" /\ pc = "done") =>
        /\ (DOMAIN sedata) \cup (DOMAIN pedata) = DOMAIN written
        /\ (DOMAIN sedata) \cap (DOMAIN pedata) = {}
        /\ \A s \in DOMAIN written :
                s \in DOMAIN pedata <=> "paired_total" \in DOMAIN written[s]
        /\ \A s \in DOMAIN pedata :
                /\ DOMAIN pedata[s] = DOMAIN written[s]
                /\ \A k \in DOMAIN pedata[s] :
                        IF k \in C10_Mates
                        THEN 2 * pedata[s][k] = written[s][k]
                        ELSE pedata[s][k] = written[s][k]
        /\ \A s \in DOMAIN sedata : sedata[s] = written[s]
        /\ (Called("hisat2_se_plot") <=> sedata # Empty)
        /\ (Called("hisat2_pe_plot") <=> pedata # Empty)
        /\ Len(calls) \in {4, 5}

\* both charts were drawn, and a paired-end sample had a mate count to halve
C10_Witness ==
    /\ module = "hisat2"
    /\ pc = "done"
    /\ sedata # Empty
    /\ \E s \in DOMAIN pedata : "unpaired_total" \in DOMAIN pedata[s]

\* no pattern of module m finds line l: none of its metric patterns and, for
\* hisat2, neither the command pattern nor the overall-rate pattern
NoPattern(m, l) ==
    /\ \A k \in DOMAIN Regexes(m) : ~(l.txt \in Regexes(m)[k] /\ l.a > 0)
    /\ m = "hisat2" => ~(l.txt = OverallTxt /\ l.a > 0) /\ l.txt # HscmdTxt

\* C11: reading a line that no pattern of the module finds leaves the working
\* record, the current sample name and the result set as they were; and a
\* record that is saved has no key other than those whose pattern found a
\* line since the last saved record (hisat2: and overall_alignment_rate), so
\* no default value stands in for a key that was never found.
C11_NonMatchingSkipped ==
    [][/\ (pc = "lines" /\ pc' = "lines" /\ NoPattern(module, line')) =>
            /\ parsed_data' = parsed_data
            /\ s_name' = s_name
            /\ data' = data
       /\ SavedAtEnd =>
            /\ s_name \in DOMAIN data'
            /\ DOMAIN data'[s_name] \subseteq hist.hits
       /\ SavedAtOverall =>
            /\ s_name \in DOMAIN data'
            /\ DOMAIN data'[s_name] \subseteq hist.hits \cup {"overall_alignment_rate"}]_vars

\* a line no pattern finds has just been read, with a working record and a
\* result set in place
C11_Witness ==
    /\ pc = "lines"
    /\ line # NoLine
    /\ NoPattern(module, line)
    /\ parsed_data # Empty
    /\ data # Empty

\* the line is an 'Overall alignment rate: <number>%' line
IsOverallLine(l) == l.txt = OverallTxt /\ l.a > 0

\* C12: in hisat2 every record of the result set has the key
\* overall_alignment_rate, at every moment of the run; while a file is parsed
\* the result set changes only in the step that reads an 'Overall alignment
\* rate' line, so the end of a file saves nothing, whatever the working record
\* holds by then.
C12_OnlyAtOverall ==
    /\ [](module = "hisat2" =>
            \A s \in DOMAIN data : "overall_alignment_rate" \in DOMAIN data[s])
    /\ [][(module = "hisat2" /\ pc = "lines" /\ ~(pc' = "lines" /\ IsOverallLine(line')))
            => data' = data]_vars

\* a hisat2 file with matched metrics and no record saved for them has ended,
\* and the result set has no sample
C12_Witness ==
    /\ module = "hisat2"
    /\ pc = "find"
    /\ nfiles = 1
    /\ hist.dropped
    /\ data = Empty

\* the sample name the command line of the logs gives
CmdName == clean_s_name([txt |-> HscmdTxt, a |-> 0, b |-> 0])

====
